---- MODULE Spec2Model ----
(***************************************************************************)
(* The multi-provider runtime of BookForge: BaseProvider (the provider     *)
(* state machine), ProviderRegistry (registered kinds, active instances,   *)
(* event fan-out) and ProviderManager (current provider, admission         *)
(* control, usage statistics, failover).                                   *)
(*                                                                         *)
(* The host runtime is single-threaded and cooperative: every action below *)
(* is one synchronous section of the code, from a call or the resumption   *)
(* of an await up to the next await on provider I/O.                       *)
(***************************************************************************)
EXTENDS Integers, Sequences, FiniteSets, TLC

\* ---------------------------------------------------------------- bounds
ProviderIds == {"A", "B", "C"}
Configs == {"cfg1", "cfg2"}
\* provider classes: "K1" is the class the application registers for an id, "K2"
\* another complete class declaring the same id; the others lack one thing each
Classes == {"K1", "K2", "KNoName", "KNoCountTokens", "KNoGenerateStream",
            "KNoConfigure", "KEmptyCapabilities"}

\* what an instance of the class lacks of the provider contract
ClassLacks(cls) ==
    CASE cls = "KNoName" -> {"info.name"}
      [] cls = "KNoCountTokens" -> {"countTokens"}
      [] cls = "KNoGenerateStream" -> {"generateStream"}
      [] cls = "KNoConfigure" -> {"configure"}
      [] cls = "KEmptyCapabilities" -> {"a capability"}
      [] OTHER -> {}

\* what validateProvider looks for: the info, its id and name, the capabilities
\* object, and the methods of its requiredMethods list
Validated ==
    {"info", "info.id", "info.name", "capabilities", "initialize",
     "getAvailableModels", "generate", "countTokens", "estimateCost", "checkHealth",
     "dispose"}

\* the classes validateProvider lets through
ValidClasses == {cls \in Classes : ClassLacks(cls) \cap Validated = {}}
NoClass == "none"
\* createProvider calls in one behaviour (each constructs an instance)
MaxInstances == 2
\* generate calls in one behaviour of the accounting specification
MaxCalls == 23
\* asynchronous operations suspended at the same time
MaxTasks == 2
\* requests admitted in one behaviour
MaxRequests == 2
\* maxConcurrentRequests is configured in 1..MaxCap
MaxCap == 2

NULL == "null"
NoConfig == "none"
\* ProviderManagerConfig.fallbackProviders of the modelled deployment
FallbackProviders == <<"B", "C">>

VARIABLES
    registeredProviders,  \* ProviderRegistry.registeredProviders: id -> class, NoClass = no entry
    activeProviders,      \* ProviderRegistry.activeProviders: id -> instance number, 0 = no entry
    providerConfigs,      \* ProviderRegistry.providerConfigs
    registryIsDisposed,   \* ProviderRegistry.isDisposed
    instances,            \* every instance createProvider constructed, per id, in order
    config,               \* ProviderManager.config
    currentProvider,      \* ProviderManager.currentProvider
    usageStats,           \* ProviderManager.usageStats
    activeRequests,       \* ProviderManager.activeRequests
    isDisposed,           \* ProviderManager.isDisposed
    tasks,                \* suspended asynchronous operations
    emitted,              \* what the Manager emitted during the last action
    outcome,              \* the call that returned or threw during the last action
    initialized,          \* ids for which a provider initialize() has ever succeeded
    admitted,             \* how many generate/generateWithFailover calls were admitted
    failures              \* per id, how many admitted requests ended in a failure

vars == <<registeredProviders, activeProviders, providerConfigs, registryIsDisposed,
          instances, config, currentProvider, usageStats, activeRequests, isDisposed,
          tasks, emitted, outcome, initialized, admitted, failures>>

\* ---------------------------------------------------------------- values
\* BaseProvider's fields after construction; notified is the status the instance's
\* 'status-changed' listeners know: the initial one, then the last one emitted to them
NewInstance ==
    [status |-> "disconnected", isInitialized |-> FALSE, isDisposed |-> FALSE,
     config |-> NoConfig, listeners |-> FALSE, notified |-> "disconnected"]

\* Map.get(providerId) of activeRequests: a number, undefined, or NaN
Absent == [kind |-> "absent", n |-> 0]
NaN == [kind |-> "NaN", n |-> 0]
Num(k) == [kind |-> "number", n |-> k]

NoStats == [present |-> FALSE, requestCount |-> 0, errorCount |-> 0]

NoError == [code |-> "none", providerId |-> "none"]
Err(code, id) == [code |-> code, providerId |-> id]

NoTask ==
    [kind |-> "none", pc |-> "none", id |-> "none", gen |-> 0, via |-> "none",
     cfg |-> NoConfig, res |-> NoError, list |-> <<>>, idx |-> 0,
     lastError |-> NoError, start |-> NULL, attempted |-> <<>>,
     snapshot |-> {}, pending |-> {}, results |-> <<>>]

\* phase: "returned" (the call returned or threw) or "suspended" (it awaits I/O)
NoOutcome ==
    [op |-> "none", phase |-> "none", id |-> "none", ok |-> FALSE, error |-> NoError,
     attempted |-> <<>>, start |-> NULL]

\* a call that returned (ok) or threw (error # NoError) during the action
Returned(op, id, error) ==
    [NoOutcome EXCEPT !.op = op, !.phase = "returned", !.id = id,
                      !.ok = (error = NoError), !.error = error]

\* a call that ran up to an await on provider I/O during the action
Suspended(op, id) ==
    [NoOutcome EXCEPT !.op = op, !.phase = "suspended", !.id = id]

\* what the Manager emits: 'provider-switched', 'usage-updated', 'error'
Switched(from, to, reason) ==
    [kind |-> "provider-switched", from |-> from, to |-> to, reason |-> reason]
UsageUpdated(p) ==
    [kind |-> "usage-updated", from |-> p, to |-> "none", reason |-> "none"]
HealthCheckCompleted(results) ==
    [kind |-> "health-check-completed", from |-> "none", to |-> "none",
     reason |-> "none", results |-> results]
ManagerError(e) ==
    [kind |-> "error", from |-> e.providerId, to |-> "none", reason |-> e.code]

Min(S) == CHOOSE x \in S : \A y \in S : x <= y

RECURSIVE Sum(_, _)
Sum(f, S) == IF S = {} THEN 0
             ELSE LET x == CHOOSE y \in S : TRUE IN f[x] + Sum(f, S \ {x})

TotalInstances == Sum([p \in ProviderIds |-> Len(instances[p])], ProviderIds)

FreeSlots == {t \in 1..MaxTasks : tasks[t].kind = "none"}

\* ---------------------------------------------------------------- BaseProvider
StatusChanged(p, st) == [kind |-> "status-changed", id |-> p, status |-> st]
ProviderError(p) == [kind |-> "provider-error", id |-> p, status |-> "none"]

\* setStatus: the status is assigned and 'status-changed' emitted only on a change;
\* the Registry hears it only while its listener is on the instance
SetStatus(i, p, st) ==
    IF i.status # st
    THEN [inst |-> [i EXCEPT !.status = st,
                             !.notified = IF i.listeners THEN st ELSE @],
          events |-> IF i.listeners THEN <<StatusChanged(p, st)>> ELSE <<>>]
    ELSE [inst |-> i, events |-> <<>>]

\* emit('error', e) of the provider, as the Registry hears it
EmitError(i, p) == IF i.listeners THEN <<ProviderError(p)>> ELSE <<>>

\* validateNotDisposed
ValidateNotDisposed(i, p) ==
    IF i.isDisposed THEN Err("PROVIDER_API_ERROR", p) ELSE NoError

\* validateReadyState: the error it throws, NoError when it returns
ValidateReadyState(i, p) ==
    IF i.isDisposed THEN Err("PROVIDER_API_ERROR", p)
    ELSE IF ~i.isInitialized THEN Err("PROVIDER_NOT_CONFIGURED", p)
    ELSE IF i.status # "ready" THEN Err("PROVIDER_API_ERROR", p)
    ELSE NoError

\* initialize, from the resumption after validateConfig/doInitialize to its end.
\* how: "ok", "invalid" (validateConfig rejects) or "fail" (doInitialize throws)
InitializeEnd(i, p, cfg, how) ==
    IF how = "ok"
    THEN LET s == SetStatus([i EXCEPT !.config = cfg, !.isInitialized = TRUE], p, "ready")
         IN  [inst |-> s.inst, events |-> s.events, error |-> NoError]
    ELSE LET j == IF how = "fail" THEN [i EXCEPT !.config = cfg] ELSE i
             s == SetStatus(j, p, "error")
         IN  [inst |-> s.inst,
              events |-> s.events \o EmitError(s.inst, p),
              error |-> Err(IF how = "fail" THEN "PROVIDER_API_ERROR"
                            ELSE "PROVIDER_INVALID_CONFIG", p)]

\* dispose: doDispose may throw, which dispose logs and swallows
DisposeInstance(i, p, doDisposeOk) ==
    IF i.isDisposed \/ ~doDisposeOk THEN i
    ELSE [i EXCEPT !.listeners = FALSE, !.config = NoConfig, !.isInitialized = FALSE,
                   !.isDisposed = TRUE, !.status = "disconnected"]

\* ---------------------------------------------------------------- ProviderRegistry
IsProviderRegistered(p) == registeredProviders[p] # NoClass

\* isProviderReady, on a given instance table and active map
IsProviderReady(insts, act, p) ==
    act[p] # 0 /\ insts[p][act[p]].status = "ready"

\* ---------------------------------------------------------------- ProviderManager
RECURSIVE Dedup(_)
\* [...new Set(providers)]: first occurrences, in order
Dedup(s) ==
    IF s = <<>> THEN <<>>
    ELSE LET r == Dedup(SubSeq(s, 1, Len(s) - 1))
             x == s[Len(s)]
         IN  IF \E k \in 1..Len(r) : r[k] = x THEN r ELSE Append(r, x)

\* a priority list that would keep its duplicates
GetFailoverProvidersWithDuplicates(cur) ==
    (IF cur = NULL THEN <<>> ELSE <<cur>>) \o config.fallbackProviders

\* getFailoverProviders
GetFailoverProviders(cur) ==
    Dedup((IF cur = NULL THEN <<>> ELSE <<cur>>) \o config.fallbackProviders)

\* a failure handler that would not leave the failed id out of its search
HandleProviderFailureKeepingFailed(cur, providerId, insts, act) ==
    LET fallbackProviders == GetFailoverProviders(cur)
        ready == {k \in 1..Len(fallbackProviders) :
                      IsProviderReady(insts, act, fallbackProviders[k])}
    IN  IF ready = {} THEN [cur |-> cur, emitted |-> <<>>]
        ELSE [cur |-> fallbackProviders[Min(ready)],
              emitted |-> <<Switched(providerId, fallbackProviders[Min(ready)],
                                     "automatic-failover")>>]

\* handleProviderFailure: the new current provider and what is emitted
HandleProviderFailure(cur, providerId, insts, act) ==
    LET fallbackProviders ==
            SelectSeq(GetFailoverProviders(cur), LAMBDA id : id # providerId)
        ready == {k \in 1..Len(fallbackProviders) :
                      IsProviderReady(insts, act, fallbackProviders[k])}
    IN  IF ready = {} THEN [cur |-> cur, emitted |-> <<>>]
        ELSE [cur |-> fallbackProviders[Min(ready)],
              emitted |-> <<Switched(providerId, fallbackProviders[Min(ready)],
                                     "automatic-failover")>>]

\* the two listeners setupEventHandlers puts on the Registry
OnRegistryEvent(e, cur, insts, act) ==
    IF e.kind = "provider-error"
    THEN IF config.enableAutoFailover /\ e.id = cur
         THEN HandleProviderFailure(cur, e.id, insts, act)
         ELSE [cur |-> cur, emitted |-> <<>>]
    ELSE IF e.status = "error" /\ e.id = cur /\ config.enableAutoFailover
         THEN HandleProviderFailure(cur, e.id, insts, act)
         ELSE [cur |-> cur, emitted |-> <<>>]

RECURSIVE Deliver(_, _, _, _, _)
\* the Registry re-emits the events in order; the Manager's listeners stay on the
\* Registry until the Registry's own dispose() removes all listeners
Deliver(events, cur, insts, act, regDisposed) ==
    IF events = <<>> \/ regDisposed THEN [cur |-> cur, emitted |-> <<>>]
    ELSE LET h == OnRegistryEvent(Head(events), cur, insts, act)
             r == Deliver(Tail(events), h.cur, insts, act, regDisposed)
         IN  [cur |-> r.cur, emitted |-> h.emitted \o r.emitted]

\* ---------------------------------------------------------------- initial state
Init ==
    /\ registeredProviders = [p \in ProviderIds |-> NoClass]
    /\ activeProviders = [p \in ProviderIds |-> 0]
    /\ providerConfigs = [p \in ProviderIds |-> NoConfig]
    /\ registryIsDisposed = FALSE
    /\ instances = [p \in ProviderIds |-> <<>>]
    /\ config = [fallbackProviders |-> FallbackProviders,
                 enableAutoFailover |-> TRUE,
                 maxConcurrentRequests |-> MaxCap]
    /\ currentProvider = NULL
    /\ usageStats = [p \in ProviderIds |-> NoStats]
    /\ activeRequests = [p \in ProviderIds |-> Absent]
    /\ isDisposed = FALSE
    /\ tasks = [t \in 1..MaxTasks |-> NoTask]
    /\ emitted = <<>>
    /\ outcome = NoOutcome
    /\ initialized = {}
    /\ admitted = 0
    /\ failures = [p \in ProviderIds |-> 0]

\* ---------------------------------------------------------------- Registry actions
\* registerProvider(ProviderClass), ProviderClass being the class cls whose info.id
\* is p: a valid class's constructor is stored under p, over any entry already there
RegisterProvider(p, cls) ==
    /\ IF registryIsDisposed
       THEN /\ outcome' = Returned("registerProvider", p, Err("REGISTRY_DISPOSED", "none"))
            /\ UNCHANGED registeredProviders
       ELSE IF cls \notin ValidClasses
       THEN /\ outcome' = Returned("registerProvider", p, Err("INVALID_PROVIDER", "none"))
            /\ UNCHANGED registeredProviders
       ELSE /\ outcome' = Returned("registerProvider", p, NoError)
            /\ registeredProviders' = [registeredProviders EXCEPT ![p] = cls]
    /\ emitted' = <<>>
    /\ UNCHANGED <<activeProviders, providerConfigs, registryIsDisposed, instances,
                   config, currentProvider, usageStats, activeRequests, isDisposed,
                   tasks, initialized, admitted, failures>>

\* a createProvider that would not look the id up among the registered kinds
CreateProviderThrowsUnchecked(p) ==
    IF registryIsDisposed THEN Err("REGISTRY_DISPOSED", "none") ELSE NoError

\* createProvider(providerId, config?) called on the Registry: what it throws before
\* constructing anything. 'Registry has been disposed' is a plain Error without a code.
CreateProviderThrows(p) ==
    IF registryIsDisposed THEN Err("REGISTRY_DISPOSED", "none")
    ELSE IF ~IsProviderRegistered(p) THEN Err("PROVIDER_NOT_FOUND", p)
    ELSE NoError

\* new ProviderClass() followed by setupProviderEventHandlers(provider)
Construct(p) == Append(instances[p], [NewInstance EXCEPT !.listeners = TRUE])

\* createProvider up to its first await: the instance is constructed, the Registry
\* listens to it, and initialize(config) has set it 'configuring'
BeginCreate(p, cfg, via, t) ==
    LET g == Len(instances[p]) + 1
        s == SetStatus(Construct(p)[g], p, "configuring")
        insts == [instances EXCEPT ![p] = [Construct(p) EXCEPT ![g] = s.inst]]
        d == Deliver(s.events, currentProvider, insts, activeProviders, registryIsDisposed)
    IN  /\ instances' = insts
        /\ currentProvider' = d.cur
        /\ emitted' = d.emitted
        /\ tasks' = [tasks EXCEPT ![t] =
               [NoTask EXCEPT !.kind = "create", !.pc = "init", !.id = p, !.gen = g,
                              !.via = via, !.cfg = cfg]]
        /\ outcome' = Suspended(IF via = "manager" THEN "initializeProvider"
                                 ELSE "createProvider", p)

CreateProvider(p, cfg) ==
    IF CreateProviderThrows(p) # NoError
    THEN /\ outcome' = Returned("createProvider", p, CreateProviderThrows(p))
         /\ emitted' = <<>>
         /\ UNCHANGED <<registeredProviders, activeProviders, providerConfigs,
                        registryIsDisposed, instances, config, currentProvider,
                        usageStats, activeRequests, isDisposed, tasks, initialized, admitted, failures>>
    ELSE /\ TotalInstances < MaxInstances
         /\ IF cfg = NoConfig
            THEN /\ instances' = [instances EXCEPT ![p] = Construct(p)]
                 /\ activeProviders' = [activeProviders EXCEPT ![p] = Len(instances[p]) + 1]
                 /\ outcome' = Returned("createProvider", p, NoError)
                 /\ emitted' = <<>>
                 /\ UNCHANGED <<currentProvider, tasks>>
            ELSE /\ FreeSlots # {}
                 /\ BeginCreate(p, cfg, "registry", Min(FreeSlots))
                 /\ UNCHANGED activeProviders
         /\ UNCHANGED <<registeredProviders, providerConfigs, registryIsDisposed, config,
                        usageStats, activeRequests, isDisposed, initialized, admitted, failures>>

\* an initializeProvider that would make its id current whatever the current provider
InitializeProviderEndTakingOver(p, cur) ==
    [usageStats |-> IF usageStats[p].present THEN usageStats
                    ELSE [usageStats EXCEPT ![p] = [NoStats EXCEPT !.present = TRUE]],
     cur |-> p]

\* initializeProvider, after the Registry or the provider returned: the usage record
\* is created if absent and the id becomes current if none is
InitializeProviderEnd(p, cur) ==
    [usageStats |-> IF usageStats[p].present THEN usageStats
                    ELSE [usageStats EXCEPT ![p] = [NoStats EXCEPT !.present = TRUE]],
     cur |-> IF cur = NULL THEN p ELSE cur]

\* the resumption of a suspended initialize(): BaseProvider.initialize finishes, then
\* its caller (createProvider, and initializeProvider when the Manager made the call)
InitComplete(t, how) ==
    LET k == tasks[t]
        p == k.id
        r == InitializeEnd(instances[p][k.gen], p, k.cfg, how)
        insts == [instances EXCEPT ![p][k.gen] = r.inst]
        ok == r.error = NoError
        \* createProvider's catch emits 'provider-error' itself and rewraps the error
        events == IF k.kind = "create" /\ ~ok THEN r.events \o <<ProviderError(p)>>
                  ELSE r.events
        error == IF k.kind = "create" /\ ~ok THEN Err("PROVIDER_API_ERROR", p)
                 ELSE r.error
        d == Deliver(events, currentProvider, insts, activeProviders, registryIsDisposed)
        m == InitializeProviderEnd(p, d.cur)
    IN  /\ k.pc = "init"
        /\ instances' = insts
        /\ initialized' = IF ok THEN initialized \cup {p} ELSE initialized
        /\ IF k.kind = "create" /\ ok
           THEN /\ providerConfigs' = [providerConfigs EXCEPT ![p] = k.cfg]
                /\ activeProviders' = [activeProviders EXCEPT ![p] = k.gen]
           ELSE UNCHANGED <<providerConfigs, activeProviders>>
        /\ IF k.via = "manager" /\ ok
           THEN /\ usageStats' = m.usageStats
                /\ currentProvider' = m.cur
                /\ emitted' = d.emitted
           ELSE /\ usageStats' = usageStats
                /\ currentProvider' = d.cur
                /\ emitted' = IF k.via = "manager"
                              THEN d.emitted \o <<ManagerError(error)>>
                              ELSE d.emitted
        /\ outcome' = Returned(IF k.via = "manager" THEN "initializeProvider"
                                ELSE "createProvider", p, error)
        /\ tasks' = [tasks EXCEPT ![t] = NoTask]
        /\ UNCHANGED <<registeredProviders, registryIsDisposed, config, activeRequests,
                       isDisposed, admitted, failures>>

\* a disposeProvider that would keep the entry when the instance's cleanup fails
DisposeProviderKeepingFailed(p, doDisposeOk) ==
    /\ IF activeProviders[p] # 0 /\ doDisposeOk
       THEN /\ instances' = [instances EXCEPT ![p][activeProviders[p]] =
                                 DisposeInstance(@, p, doDisposeOk)]
            /\ activeProviders' = [activeProviders EXCEPT ![p] = 0]
            /\ providerConfigs' = [providerConfigs EXCEPT ![p] = NoConfig]
       ELSE UNCHANGED <<instances, activeProviders, providerConfigs>>
    /\ emitted' = <<>>
    /\ outcome' = Returned("disposeProvider", p, NoError)
    /\ UNCHANGED <<registeredProviders, registryIsDisposed, config, currentProvider,
                   usageStats, activeRequests, isDisposed, tasks, initialized, admitted,
                   failures>>

\* disposeProvider(providerId): BaseProvider.dispose() resolves even when doDispose
\* throws, so the entry is deleted whenever there is one
DisposeProvider(p, doDisposeOk) ==
    /\ IF activeProviders[p] # 0
       THEN /\ instances' = [instances EXCEPT ![p][activeProviders[p]] =
                                 DisposeInstance(@, p, doDisposeOk)]
            /\ activeProviders' = [activeProviders EXCEPT ![p] = 0]
            /\ providerConfigs' = [providerConfigs EXCEPT ![p] = NoConfig]
       ELSE UNCHANGED <<instances, activeProviders, providerConfigs>>
    /\ emitted' = <<>>
    /\ outcome' = Returned("disposeProvider", p, NoError)
    /\ UNCHANGED <<registeredProviders, registryIsDisposed, config, currentProvider,
                   usageStats, activeRequests, isDisposed, tasks, initialized, admitted, failures>>

\* ProviderRegistry.dispose(): the active instances are disposed, the three maps
\* cleared and every listener on the Registry (the Manager's too) removed
RegistryDispose(doDisposeOk) ==
    /\ IF registryIsDisposed
       THEN UNCHANGED <<registryIsDisposed, instances, activeProviders, providerConfigs,
                        registeredProviders>>
       ELSE /\ registryIsDisposed' = TRUE
            /\ instances' = [p \in ProviderIds |->
                   [g \in 1..Len(instances[p]) |->
                       IF activeProviders[p] = g
                       THEN DisposeInstance(instances[p][g], p, doDisposeOk)
                       ELSE instances[p][g]]]
            /\ activeProviders' = [p \in ProviderIds |-> 0]
            /\ providerConfigs' = [p \in ProviderIds |-> NoConfig]
            /\ registeredProviders' = [p \in ProviderIds |-> NoClass]
    /\ emitted' = <<>>
    /\ outcome' = Returned("Registry.dispose", "none", NoError)
    /\ UNCHANGED <<config, currentProvider, usageStats, activeRequests, isDisposed,
                   tasks, initialized, admitted, failures>>

\* a checkHealth() whose passing check would put the provider back to 'ready'
CheckHealthRecovering(p, healthy) ==
    /\ activeProviders[p] # 0
    /\ LET s == SetStatus(instances[p][activeProviders[p]], p,
                          IF healthy THEN "ready" ELSE "error")
           insts == [instances EXCEPT ![p][activeProviders[p]] = s.inst]
           d == Deliver(s.events, currentProvider, insts, activeProviders,
                        registryIsDisposed)
       IN  /\ instances' = insts
           /\ currentProvider' = d.cur
           /\ emitted' = d.emitted
    /\ outcome' = Returned("checkHealth", p, NoError)
    /\ UNCHANGED <<registeredProviders, activeProviders, providerConfigs,
                   registryIsDisposed, config, usageStats, activeRequests, isDisposed,
                   tasks, initialized, admitted, failures>>

\* BaseProvider.checkHealth() of the active instance of p, as the health sweep calls
\* it: a failing doHealthCheck sets the status to 'error', a passing one changes nothing
CheckHealth(p, healthy) ==
    /\ activeProviders[p] # 0
    /\ LET s == IF healthy
                THEN [inst |-> instances[p][activeProviders[p]], events |-> <<>>]
                ELSE SetStatus(instances[p][activeProviders[p]], p, "error")
           insts == [instances EXCEPT ![p][activeProviders[p]] = s.inst]
           d == Deliver(s.events, currentProvider, insts, activeProviders,
                        registryIsDisposed)
       IN  /\ instances' = insts
           /\ currentProvider' = d.cur
           /\ emitted' = d.emitted
    /\ outcome' = Returned("checkHealth", p, NoError)
    /\ UNCHANGED <<registeredProviders, activeProviders, providerConfigs,
                   registryIsDisposed, config, usageStats, activeRequests, isDisposed,
                   tasks, initialized, admitted, failures>>

\* checkProviderHealth() up to the await on the providers: checkAllProviderHealth calls
\* checkHealth() on every instance in activeProviders, each running to its
\* doHealthCheck; with no active provider the sweep completes at once
CheckProviderHealth ==
    LET active == {p \in ProviderIds : activeProviders[p] # 0}
    IN  /\ FreeSlots # {}
        /\ IF active = {}
           THEN /\ emitted' = <<HealthCheckCompleted(<<>>)>>
                /\ outcome' = Returned("checkProviderHealth", "none", NoError)
                /\ UNCHANGED tasks
           ELSE /\ tasks' = [tasks EXCEPT ![Min(FreeSlots)] =
                       [NoTask EXCEPT !.kind = "sweep", !.pc = "checking",
                                      !.snapshot = active,
                                      !.pending = {[id |-> p, gen |-> activeProviders[p]] :
                                                      p \in active}]]
                /\ emitted' = <<>>
                /\ outcome' = Suspended("checkProviderHealth", "none")
        /\ UNCHANGED <<registeredProviders, activeProviders, providerConfigs,
                       registryIsDisposed, instances, config, currentProvider,
                       usageStats, activeRequests, isDisposed, initialized, admitted,
                       failures>>

\* a sweep that would report the status a failing provider had before its check
HealthEntryKeepingStatus(p, before, after, healthy) == [id |-> p, status |-> before.status]

\* the entry checkAllProviderHealth stores for p: what checkHealth resolved with, the
\* instance's status after a passing check and 'error' after a failing one
HealthEntry(p, before, after, healthy) ==
    [id |-> p, status |-> IF healthy THEN after.status ELSE "error"]

\* the doHealthCheck of one instance of a sweep returns or throws: checkHealth answers
\* with the instance's status, or sets it to 'error' and answers 'error'; after the
\* last answer checkAllProviderHealth returns and the Manager emits the results
HealthCheckComplete(t, c, healthy) ==
    /\ tasks[t].kind = "sweep" /\ c \in tasks[t].pending
    /\ LET p == c.id
           s == IF healthy THEN [inst |-> instances[p][c.gen], events |-> <<>>]
                ELSE SetStatus(instances[p][c.gen], p, "error")
           insts == [instances EXCEPT ![p][c.gen] = s.inst]
           d == Deliver(s.events, currentProvider, insts, activeProviders,
                        registryIsDisposed)
           results == Append(tasks[t].results,
                             HealthEntry(p, instances[p][c.gen], s.inst, healthy))
       IN  /\ instances' = insts
           /\ currentProvider' = d.cur
           /\ IF tasks[t].pending = {c}
              THEN /\ tasks' = [tasks EXCEPT ![t] = NoTask]
                   /\ emitted' = d.emitted \o <<HealthCheckCompleted(results)>>
                   /\ outcome' = Returned("checkProviderHealth", p, NoError)
              ELSE /\ tasks' = [tasks EXCEPT ![t].pending = @ \ {c},
                                             ![t].results = results]
                   /\ emitted' = d.emitted
                   /\ outcome' = Returned("doHealthCheck", p,
                                    IF healthy THEN NoError
                                    ELSE Err("PROVIDER_API_ERROR", p))
    /\ UNCHANGED <<registeredProviders, activeProviders, providerConfigs,
                   registryIsDisposed, config, usageStats, activeRequests, isDisposed,
                   initialized, admitted, failures>>

\* ---------------------------------------------------------------- Manager actions
\* provider.configure(config) up to the await inside initialize
BeginConfigure(p, cfg, t) ==
    LET g == activeProviders[p]
        s == SetStatus(instances[p][g], p, "configuring")
        insts == [instances EXCEPT ![p][g] = s.inst]
        d == Deliver(s.events, currentProvider, insts, activeProviders, registryIsDisposed)
    IN  /\ instances' = insts
        /\ currentProvider' = d.cur
        /\ emitted' = d.emitted
        /\ tasks' = [tasks EXCEPT ![t] =
               [NoTask EXCEPT !.kind = "configure", !.pc = "init", !.id = p, !.gen = g,
                              !.via = "manager", !.cfg = cfg]]
        /\ outcome' = Suspended("initializeProvider", p)

\* what initializeProvider throws before any await: the Registry's refusal to create
\* (a plain Error is rewrapped as PROVIDER_API_ERROR by the catch), or configure()'s
\* on an instance that is disposed or was never given a configuration
InitializeProviderThrows(p) ==
    IF activeProviders[p] = 0
    THEN IF registryIsDisposed THEN Err("PROVIDER_API_ERROR", p)
         ELSE CreateProviderThrows(p)
    ELSE LET i == instances[p][activeProviders[p]]
         IN  IF ValidateNotDisposed(i, p) # NoError THEN ValidateNotDisposed(i, p)
             ELSE IF i.config = NoConfig THEN Err("PROVIDER_NOT_CONFIGURED", p)
             ELSE NoError

\* initializeProvider(providerId, config) up to its first await
InitializeProvider(p, cfg) ==
    IF isDisposed
    THEN /\ outcome' = Returned("initializeProvider", p, Err("MANAGER_DISPOSED", "none"))
         /\ emitted' = <<>>
         /\ UNCHANGED <<registeredProviders, activeProviders, providerConfigs,
                        registryIsDisposed, instances, config, currentProvider,
                        usageStats, activeRequests, isDisposed, tasks, initialized, admitted, failures>>
    ELSE IF InitializeProviderThrows(p) # NoError
    THEN /\ outcome' = Returned("initializeProvider", p, InitializeProviderThrows(p))
         /\ emitted' = <<ManagerError(InitializeProviderThrows(p))>>
         /\ UNCHANGED <<registeredProviders, activeProviders, providerConfigs,
                        registryIsDisposed, instances, config, currentProvider,
                        usageStats, activeRequests, isDisposed, tasks, initialized, admitted, failures>>
    ELSE /\ FreeSlots # {}
         /\ IF activeProviders[p] = 0
            THEN /\ TotalInstances < MaxInstances
                 /\ BeginCreate(p, cfg, "manager", Min(FreeSlots))
            ELSE BeginConfigure(p, cfg, Min(FreeSlots))
         /\ UNCHANGED <<registeredProviders, activeProviders, providerConfigs,
                        registryIsDisposed, config, usageStats, activeRequests,
                        isDisposed, initialized, admitted, failures>>

\* a setCurrentProvider that would not require the instance to be ready
SetCurrentProviderThrowsUnready(p) ==
    IF ~IsProviderRegistered(p) THEN Err("PROVIDER_NOT_FOUND", p)
    ELSE IF activeProviders[p] = 0 THEN Err("PROVIDER_NOT_CONFIGURED", p)
    ELSE NoError

\* what setCurrentProvider throws, NoError when it goes through
SetCurrentProviderThrows(p) ==
    IF ~IsProviderRegistered(p) THEN Err("PROVIDER_NOT_FOUND", p)
    ELSE IF activeProviders[p] = 0 THEN Err("PROVIDER_NOT_CONFIGURED", p)
    ELSE IF instances[p][activeProviders[p]].status # "ready"
         THEN Err("PROVIDER_API_ERROR", p)
    ELSE NoError

\* a manual switch that would be notified whatever the previous current provider
ManualSwitchAlways(oldProvider, p) == <<Switched(oldProvider, p, "manual")>>

\* the notification of a manual switch
ManualSwitch(oldProvider, p) ==
    IF oldProvider # NULL /\ oldProvider # p
    THEN <<Switched(oldProvider, p, "manual")>> ELSE <<>>

\* setCurrentProvider(providerId)
SetCurrentProvider(p) ==
    /\ IF SetCurrentProviderThrows(p) # NoError
       THEN /\ UNCHANGED currentProvider
            /\ emitted' = <<>>
       ELSE /\ currentProvider' = p
            /\ emitted' = ManualSwitch(currentProvider, p)
    /\ outcome' = [Returned("setCurrentProvider", p, SetCurrentProviderThrows(p))
                      EXCEPT !.start = currentProvider]
    /\ UNCHANGED <<registeredProviders, activeProviders, providerConfigs,
                   registryIsDisposed, instances, config, usageStats, activeRequests,
                   isDisposed, tasks, initialized, admitted, failures>>

\* a dispose() that would also drop the Registry's active instances
ManagerDisposeWithRegistry ==
    /\ isDisposed' = TRUE
    /\ usageStats' = [p \in ProviderIds |-> NoStats]
    /\ activeRequests' = [p \in ProviderIds |-> Absent]
    /\ currentProvider' = NULL
    /\ activeProviders' = [p \in ProviderIds |-> 0]
    /\ emitted' = <<>>
    /\ outcome' = Returned("dispose", "none", NoError)
    /\ UNCHANGED <<registeredProviders, providerConfigs, registryIsDisposed, instances,
                   config, tasks, initialized, admitted, failures>>

\* ProviderManager.dispose()
ManagerDispose ==
    /\ IF isDisposed
       THEN UNCHANGED <<isDisposed, usageStats, activeRequests, currentProvider>>
       ELSE /\ isDisposed' = TRUE
            /\ usageStats' = [p \in ProviderIds |-> NoStats]
            /\ activeRequests' = [p \in ProviderIds |-> Absent]
            /\ currentProvider' = NULL
    /\ emitted' = <<>>
    /\ outcome' = Returned("dispose", "none", NoError)
    /\ UNCHANGED <<registeredProviders, activeProviders, providerConfigs,
                   registryIsDisposed, instances, config, tasks, initialized, admitted, failures>>

\* ---------------------------------------------------------------- requests
\* Requests carry valid parameters: validateGenerationParams passes.

\* this.activeRequests.get(providerId) || 0
ActiveCount(ar, p) == IF ar[p].kind = "number" THEN ar[p].n ELSE 0

\* a finally block that would leave the counter as it is
ReleaseLeaking(ar, p) == ar

\* the finally block of executeWithProvider: get(providerId)! - 1 is NaN when the entry
\* is gone or NaN; the entry is deleted when the new count is <= 0, which NaN is not
Release(ar, p) ==
    IF ar[p].kind = "number"
    THEN [ar EXCEPT ![p] = IF ar[p].n - 1 <= 0 THEN Absent ELSE Num(ar[p].n - 1)]
    ELSE [ar EXCEPT ![p] = NaN]

\* the admission check of executeWithProvider: the error it throws, or NoError
Admission(ar, p) ==
    IF ActiveCount(ar, p) >= config.maxConcurrentRequests
    THEN Err("RATE_LIMIT_EXCEEDED", p) ELSE NoError

\* an admission that would not count the request
AdmitUncounted(ar, p) == [ar EXCEPT ![p] = Num(ActiveCount(ar, p))]

\* this.activeRequests.set(providerId, current + 1)
Admit(ar, p) == [ar EXCEPT ![p] = Num(ActiveCount(ar, p) + 1)]

RECURSIVE Pow2(_)
Pow2(n) == IF n = 0 THEN 1 ELSE 2 * Pow2(n - 1)

RECURSIVE Pow2Mod(_, _)
\* 2^n modulo k
Pow2Mod(n, k) == IF n = 0 THEN 1 % k ELSE (2 * Pow2Mod(n - 1, k)) % k

\* the least n with c * 2^n >= k
RECURSIVE Shift(_, _)
Shift(c, k) == IF c >= k THEN 0 ELSE 1 + Shift(2 * c, k)

\* Math.floor(errorRate * k), where errorRate is the number c / k of the previous
\* update (0 < c < k). Numbers are IEEE-754 binary64: c / k is rounded to a 53-bit
\* significand m / 2^s, ties to even; its product with k is c - rem / 2^s when the
\* division rounded down, and that product rounds back to c only if it is within
\* half a unit in the last place below c. Otherwise the floor is c - 1.
FloorOfProduct(c, k) ==
    LET s == 52 + Shift(c, k)
        rem == (c * Pow2Mod(s, k)) % k
        quotientEven == ((((c * Pow2Mod(s, 2 * k)) % (2 * k)) - rem) \div k) % 2 = 0
        roundedDown == rem # 0 /\ (2 * rem < k \/ (2 * rem = k /\ quotientEven))
        \* the least e with 2^e >= c: below c the numbers are 2^(e - 53) apart
        e == Shift(1, c)
    IN  IF roundedDown /\ 4 * rem > Pow2(Shift(c, k) + e) THEN c - 1 ELSE c

\* Math.floor(stats.errorRate * (stats.requestCount - 1)), errorRate being the number
\* errorCount / requestCount stored by the previous update (0 before the first)
PreviousErrorCount(stats) ==
    IF stats.errorCount = 0 \/ stats.errorCount = stats.requestCount
    THEN stats.errorCount
    ELSE FloorOfProduct(stats.errorCount, stats.requestCount)

\* an accounting that would record every request as a success
UpdateUsageStatsCountingNone(p, success) ==
    IF ~usageStats[p].present THEN [usageStats |-> usageStats, emitted |-> <<>>]
    ELSE [usageStats |-> [usageStats EXCEPT ![p].requestCount = @ + 1],
          emitted |-> <<UsageUpdated(p)>>]

\* updateUsageStats(providerId, latency, success): the record holds requestCount and
\* the number errorRate = errorCount / requestCount
UpdateUsageStats(p, success) ==
    IF ~usageStats[p].present THEN [usageStats |-> usageStats, emitted |-> <<>>]
    ELSE [usageStats |-> [usageStats EXCEPT
                 ![p].requestCount = @ + 1,
                 ![p].errorCount = PreviousErrorCount(usageStats[p])
                                   + IF success THEN 0 ELSE 1],
          emitted |-> <<UsageUpdated(p)>>]

\* requests admitted by executeWithProvider that have not reached its finally block
InFlight(p) ==
    Cardinality({t \in 1..MaxTasks :
        tasks[t].kind \in {"generate", "failover"} /\ tasks[t].id = p})

\* getCurrentProvider(): the instance number, 0 for null
GetCurrentProvider ==
    IF currentProvider = NULL THEN 0 ELSE activeProviders[currentProvider]

\* what generate throws before the provider is called
GenerateThrows ==
    IF GetCurrentProvider = 0 THEN Err("PROVIDER_NOT_CONFIGURED", "unknown")
    ELSE Admission(activeRequests, currentProvider)

\* generate(params) up to the await on the provider: the request is admitted and
\* provider.generate runs to validateReadyState's throw or to the vendor call
Generate ==
    IF GenerateThrows # NoError
    THEN /\ outcome' = [Returned("generate", "none", GenerateThrows)
                           EXCEPT !.start = currentProvider]
         /\ emitted' = <<>>
         /\ UNCHANGED <<registeredProviders, activeProviders, providerConfigs,
                        registryIsDisposed, instances, config, currentProvider,
                        usageStats, activeRequests, isDisposed, tasks, initialized, admitted, failures>>
    ELSE LET p == currentProvider
             g == activeProviders[p]
             e == ValidateReadyState(instances[p][g], p)
         IN  /\ FreeSlots # {}
             /\ admitted < MaxRequests
             /\ admitted' = admitted + 1
             /\ activeRequests' = Admit(activeRequests, p)
             /\ tasks' = [tasks EXCEPT ![Min(FreeSlots)] =
                    [NoTask EXCEPT !.kind = "generate",
                                   !.pc = IF e = NoError THEN "vendor" ELSE "settle",
                                   !.id = p, !.gen = g, !.res = e, !.start = p,
                                   !.attempted = IF e = NoError THEN <<p>> ELSE <<>>]]
             /\ outcome' = [Suspended("generate", p) EXCEPT !.start = p]
             /\ emitted' = <<>>
             /\ UNCHANGED <<registeredProviders, activeProviders, providerConfigs,
                            registryIsDisposed, instances, config, currentProvider,
                            usageStats, isDisposed, initialized, failures>>

\* the vendor call (doGenerate) of a request returns or throws; on a throw
\* BaseProvider.generate wraps the error and emits it before rethrowing
VendorComplete(t, ok) ==
    LET k == tasks[t]
        p == k.id
        events == IF ok THEN <<>> ELSE EmitError(instances[p][k.gen], p)
        d == Deliver(events, currentProvider, instances, activeProviders,
                     registryIsDisposed)
        res == IF ok THEN NoError ELSE Err("PROVIDER_API_ERROR", p)
    IN  /\ k.pc = "vendor"
        /\ tasks' = [tasks EXCEPT ![t].pc = "settle", ![t].res = res]
        /\ currentProvider' = d.cur
        /\ emitted' = d.emitted
        /\ outcome' = Returned("doGenerate", p, res)
        /\ UNCHANGED <<registeredProviders, activeProviders, providerConfigs,
                       registryIsDisposed, instances, config, usageStats,
                       activeRequests, isDisposed, initialized, admitted, failures>>

\* the vendor answers a request with HTTP 429: makeRequest throws a ProviderError with
\* code RATE_LIMIT_EXCEEDED, which BaseProvider.generate emits and rethrows as it is;
\* no status is assigned
VendorRateLimited(t) ==
    LET k == tasks[t]
        p == k.id
        d == Deliver(EmitError(instances[p][k.gen], p), currentProvider, instances,
                     activeProviders, registryIsDisposed)
    IN  /\ k.pc = "vendor"
        /\ tasks' = [tasks EXCEPT ![t].pc = "settle",
                                  ![t].res = Err("RATE_LIMIT_EXCEEDED", p)]
        /\ currentProvider' = d.cur
        /\ emitted' = d.emitted
        /\ outcome' = Returned("doGenerate", p, Err("RATE_LIMIT_EXCEEDED", p))
        /\ UNCHANGED <<registeredProviders, activeProviders, providerConfigs,
                       registryIsDisposed, instances, config, usageStats,
                       activeRequests, isDisposed, initialized, admitted, failures>>

RECURSIVE NextAttempt(_, _, _, _)
\* the loop of generateWithFailover from position k on, up to the first provider
\* that is admitted: ids without a ready instance are skipped, an id at its cap
\* throws RATE_LIMIT_EXCEEDED, which the loop's catch keeps as lastError
NextAttempt(list, k, lastError, ar) ==
    IF k > Len(list) THEN [idx |-> 0, lastError |-> lastError]
    ELSE IF ~IsProviderReady(instances, activeProviders, list[k])
         THEN NextAttempt(list, k + 1, lastError, ar)
    ELSE IF Admission(ar, list[k]) # NoError
         THEN NextAttempt(list, k + 1, Admission(ar, list[k]), ar)
    ELSE [idx |-> k, lastError |-> lastError]

\* what generateWithFailover throws once the list is exhausted
AllProvidersFailed(lastError) ==
    IF lastError # NoError THEN lastError ELSE Err("PROVIDER_API_ERROR", "unknown")

\* the loop goes on from position k with requests counters ar: the next provider is
\* attempted, or the call throws
ContinueFailover(t, k, list, lastError, ar, start, attempted) ==
    LET n == NextAttempt(list, k, lastError, ar)
        p == list[n.idx]
    IN  IF n.idx = 0
        THEN /\ activeRequests' = ar
             /\ tasks' = [tasks EXCEPT ![t] = NoTask]
             /\ outcome' = [Returned("generateWithFailover", "none",
                                     AllProvidersFailed(n.lastError))
                               EXCEPT !.start = start, !.attempted = attempted]
        ELSE /\ activeRequests' = Admit(ar, p)
             /\ tasks' = [tasks EXCEPT ![t] =
                    [NoTask EXCEPT !.kind = "failover", !.pc = "vendor", !.id = p,
                                   !.gen = activeProviders[p], !.list = list,
                                   !.idx = n.idx, !.lastError = n.lastError,
                                   !.start = start, !.attempted = Append(attempted, p)]]
             /\ outcome' = [Suspended("generateWithFailover", p)
                               EXCEPT !.start = start,
                                      !.attempted = Append(attempted, p)]

\* generateWithFailover(params) up to its first await
GenerateWithFailover ==
    /\ FreeSlots # {}
    /\ admitted < MaxRequests
    /\ ContinueFailover(Min(FreeSlots), 1, GetFailoverProviders(currentProvider),
                        NoError, activeRequests, currentProvider, <<>>)
    /\ admitted' = IF outcome'.phase = "suspended" THEN admitted + 1 ELSE admitted
    /\ emitted' = <<>>
    /\ UNCHANGED <<registeredProviders, activeProviders, providerConfigs,
                   registryIsDisposed, instances, config, currentProvider, usageStats,
                   isDisposed, initialized, failures>>

\* the switch generateWithFailover makes after a success: the notification's 'from' is
\* read after currentProvider has been assigned
FailoverSwitch(cur, p) ==
    IF cur # p THEN [cur |-> p, emitted |-> <<Switched(p, p, "failover")>>]
    ELSE [cur |-> cur, emitted |-> <<>>]

\* the resumption of executeWithProvider after the provider settled: the usage record
\* is updated, the finally block releases the slot, and the caller goes on
Settle(t) ==
    LET k == tasks[t]
        p == k.id
        success == k.res = NoError
        u == UpdateUsageStats(p, success)
        ar == Release(activeRequests, p)
        sw == FailoverSwitch(currentProvider, p)
    IN  /\ k.pc = "settle"
        /\ usageStats' = u.usageStats
        /\ IF k.kind = "generate"
           THEN /\ activeRequests' = ar
                /\ tasks' = [tasks EXCEPT ![t] = NoTask]
                /\ outcome' = [Returned("generate", p, k.res)
                                  EXCEPT !.start = k.start, !.attempted = k.attempted]
                /\ emitted' = u.emitted
                /\ UNCHANGED currentProvider
           ELSE IF success
           THEN /\ activeRequests' = ar
                /\ tasks' = [tasks EXCEPT ![t] = NoTask]
                /\ currentProvider' = sw.cur
                /\ emitted' = u.emitted \o sw.emitted
                /\ outcome' = [Returned("generateWithFailover", p, NoError)
                                  EXCEPT !.start = k.start, !.attempted = k.attempted]
           ELSE /\ ContinueFailover(t, k.idx + 1, k.list, k.res, ar, k.start, k.attempted)
                /\ emitted' = u.emitted
                /\ UNCHANGED currentProvider
        /\ failures' = IF success THEN failures ELSE [failures EXCEPT ![p] = @ + 1]
        /\ UNCHANGED <<registeredProviders, activeProviders, providerConfigs,
                       registryIsDisposed, instances, config, isDisposed, initialized, admitted>>

\* the streams being consumed from provider p
Streaming(p) ==
    Cardinality({t \in 1..MaxTasks : tasks[t].kind = "stream" /\ tasks[t].id = p})

\* generateStream(params) up to the first chunk requested from the vendor: there is no
\* admission check and no counter; every provider class declares streaming: true, so
\* only a missing current provider or validateReadyState makes the first next() throw,
\* the latter through executeStreamWithProvider's catch, which records a failure
GenerateStream ==
    IF GetCurrentProvider = 0
    THEN /\ outcome' = [Returned("generateStream", "none",
                                  Err("PROVIDER_NOT_CONFIGURED", "unknown"))
                           EXCEPT !.start = currentProvider]
         /\ emitted' = <<>>
         /\ UNCHANGED <<registeredProviders, activeProviders, providerConfigs,
                        registryIsDisposed, instances, config, currentProvider,
                        usageStats, activeRequests, isDisposed, tasks, initialized,
                        admitted, failures>>
    ELSE LET p == currentProvider
             g == activeProviders[p]
             e == ValidateReadyState(instances[p][g], p)
             u == UpdateUsageStats(p, FALSE)
         IN  /\ FreeSlots # {}
             /\ admitted < MaxRequests
             /\ admitted' = admitted + 1
             /\ IF e # NoError
                THEN /\ usageStats' = u.usageStats
                     /\ emitted' = u.emitted
                     /\ failures' = [failures EXCEPT ![p] = @ + 1]
                     /\ outcome' = [Returned("generateStream", p, e) EXCEPT !.start = p]
                     /\ UNCHANGED tasks
                ELSE /\ tasks' = [tasks EXCEPT ![Min(FreeSlots)] =
                            [NoTask EXCEPT !.kind = "stream", !.pc = "streaming",
                                           !.id = p, !.gen = g, !.start = p,
                                           !.attempted = <<p>>]]
                     /\ outcome' = [Suspended("generateStream", p) EXCEPT !.start = p]
                     /\ emitted' = <<>>
                     /\ UNCHANGED <<usageStats, failures>>
             /\ UNCHANGED <<registeredProviders, activeProviders, providerConfigs,
                            registryIsDisposed, instances, config, currentProvider,
                            activeRequests, isDisposed, initialized>>

\* a stream is consumed to its end, or the vendor stream throws: BaseProvider wraps and
\* emits the error, and executeStreamWithProvider records the request either way
StreamComplete(t, ok) ==
    LET k == tasks[t]
        p == k.id
        events == IF ok THEN <<>> ELSE EmitError(instances[p][k.gen], p)
        d == Deliver(events, currentProvider, instances, activeProviders,
                     registryIsDisposed)
        res == IF ok THEN NoError ELSE Err("PROVIDER_API_ERROR", p)
        u == UpdateUsageStats(p, ok)
    IN  /\ k.kind = "stream" /\ k.pc = "streaming"
        /\ tasks' = [tasks EXCEPT ![t] = NoTask]
        /\ currentProvider' = d.cur
        /\ usageStats' = u.usageStats
        /\ emitted' = d.emitted \o u.emitted
        /\ failures' = IF ok THEN failures ELSE [failures EXCEPT ![p] = @ + 1]
        /\ outcome' = [Returned("generateStream", p, res)
                          EXCEPT !.start = k.start, !.attempted = k.attempted]
        /\ UNCHANGED <<registeredProviders, activeProviders, providerConfigs,
                       registryIsDisposed, instances, config, activeRequests,
                       isDisposed, initialized, admitted>>

\* the consumer gives a stream up before its end (return() on the generator, as a
\* break out of for-await does): the generators are closed at their yield, where
\* neither the statement after yield* nor the catch of executeStreamWithProvider runs
StreamAbandon(t) ==
    /\ tasks[t].kind = "stream" /\ tasks[t].pc = "streaming"
    /\ tasks' = [tasks EXCEPT ![t] = NoTask]
    /\ emitted' = <<>>
    /\ outcome' = [Returned("generateStream.return", tasks[t].id, NoError)
                      EXCEPT !.start = tasks[t].start, !.attempted = tasks[t].attempted]
    /\ UNCHANGED <<registeredProviders, activeProviders, providerConfigs,
                   registryIsDisposed, instances, config, currentProvider, usageStats,
                   activeRequests, isDisposed, initialized, admitted, failures>>

\* getAvailableModels() of the Manager: the current provider's getAvailableModels,
\* which in every provider class answers with its model list without looking at the
\* instance's state
GetAvailableModels ==
    /\ outcome' = IF GetCurrentProvider = 0
                  THEN Returned("getAvailableModels", "none",
                                Err("PROVIDER_NOT_CONFIGURED", "unknown"))
                  ELSE Returned("getAvailableModels", currentProvider, NoError)
    /\ emitted' = <<>>
    /\ UNCHANGED <<registeredProviders, activeProviders, providerConfigs,
                   registryIsDisposed, instances, config, currentProvider, usageStats,
                   activeRequests, isDisposed, tasks, initialized, admitted, failures>>

\* ---------------------------------------------------------------- specifications
\* Every operation, from the state after construction.
Next ==
    \/ \E p \in ProviderIds, cls \in Classes : RegisterProvider(p, cls)
    \/ GenerateStream
    \/ \E t \in 1..MaxTasks, ok \in BOOLEAN : StreamComplete(t, ok)
    \/ CheckProviderHealth
    \/ \E t \in 1..MaxTasks, p \in ProviderIds, g \in 1..MaxInstances, ok \in BOOLEAN :
          HealthCheckComplete(t, [id |-> p, gen |-> g], ok)
    \/ GetAvailableModels
    \/ \E t \in 1..MaxTasks : VendorRateLimited(t)
    \/ \E t \in 1..MaxTasks : StreamAbandon(t)
    \/ \E p \in ProviderIds, cfg \in Configs \cup {NoConfig} : CreateProvider(p, cfg)
    \/ \E t \in 1..MaxTasks, how \in {"ok", "invalid", "fail"} : InitComplete(t, how)
    \/ \E p \in ProviderIds, ok \in BOOLEAN : DisposeProvider(p, ok)
    \/ \E ok \in BOOLEAN : RegistryDispose(ok)
    \/ \E p \in ProviderIds, healthy \in BOOLEAN : CheckHealth(p, healthy)
    \/ \E p \in ProviderIds, cfg \in Configs : InitializeProvider(p, cfg)
    \/ \E p \in ProviderIds : SetCurrentProvider(p)
    \/ ManagerDispose
    \/ Generate
    \/ GenerateWithFailover
    \/ \E t \in 1..MaxTasks, ok \in BOOLEAN : VendorComplete(t, ok)
    \/ \E t \in 1..MaxTasks : Settle(t)

Spec == Init /\ [][Next]_vars

\* The state after the application's startup: the three kinds are registered and
\* initializeProvider(id, cfg1) has succeeded for each, "A" first, so "A" is current.
ReadyInstance ==
    [NewInstance EXCEPT !.status = "ready", !.isInitialized = TRUE, !.config = "cfg1",
                        !.listeners = TRUE, !.notified = "ready"]

InitDeployed ==
    /\ registeredProviders = [p \in ProviderIds |-> "K1"]
    /\ activeProviders = [p \in ProviderIds |-> 1]
    /\ providerConfigs = [p \in ProviderIds |-> "cfg1"]
    /\ registryIsDisposed = FALSE
    /\ instances = [p \in ProviderIds |-> <<ReadyInstance>>]
    /\ \E auto \in BOOLEAN, cap \in 1..MaxCap :
           config = [fallbackProviders |-> FallbackProviders,
                     enableAutoFailover |-> auto,
                     maxConcurrentRequests |-> cap]
    /\ currentProvider = "A"
    /\ usageStats = [p \in ProviderIds |-> [NoStats EXCEPT !.present = TRUE]]
    /\ activeRequests = [p \in ProviderIds |-> Absent]
    /\ isDisposed = FALSE
    /\ tasks = [t \in 1..MaxTasks |-> NoTask]
    /\ emitted = <<>>
    /\ outcome = NoOutcome
    /\ initialized = ProviderIds
    /\ admitted = 0
    /\ failures = [p \in ProviderIds |-> 0]

\* Concurrent generate and generateWithFailover calls against the deployed providers
\* and their completions, in every interleaving.
NextAdmission ==
    \/ Generate
    \/ GenerateWithFailover
    \/ \E t \in 1..MaxTasks, ok \in BOOLEAN : VendorComplete(t, ok)
    \/ \E t \in 1..MaxTasks : Settle(t)

SpecAdmission == InitDeployed /\ [][NextAdmission]_vars

Idle == \A t \in 1..MaxTasks : tasks[t].kind = "none"

\* One generateWithFailover call at a time, health checks between the calls.
NextFailover ==
    \/ Idle /\ GenerateWithFailover
    \/ \E t \in 1..MaxTasks, ok \in BOOLEAN : VendorComplete(t, ok)
    \/ \E t \in 1..MaxTasks : Settle(t)
    \/ \E p \in ProviderIds, healthy \in BOOLEAN : Idle /\ CheckHealth(p, healthy)

SpecFailover == InitDeployed /\ [][NextFailover]_vars

\* The ids of the kinds the application registers in the lifecycle specifications;
\* no class exists for the other ids, which are therefore never registered.
Kinds == {"A", "B"}
Unregistered == ProviderIds \ Kinds

\* The Registry's lifecycle from construction, with manual switches of the Manager.
NextRegistry ==
    \/ \E p \in Kinds : ~IsProviderRegistered(p) /\ RegisterProvider(p, "K1")
    \/ \E p \in ProviderIds, cfg \in Configs \cup {NoConfig} : CreateProvider(p, cfg)
    \/ \E t \in 1..MaxTasks, how \in {"ok", "invalid", "fail"} : InitComplete(t, how)
    \/ \E p \in Kinds, ok \in BOOLEAN : DisposeProvider(p, ok)
    \/ \E ok \in BOOLEAN : RegistryDispose(ok)
    \/ \E p \in ProviderIds : SetCurrentProvider(p)

SpecRegistry == Init /\ [][NextRegistry]_vars

\* The Manager's lifecycle from construction: one call at a time, each running to
\* its completion before the next call is made; every configuration given is "cfg1".
NextManager ==
    \/ \E p \in Kinds : ~IsProviderRegistered(p) /\ RegisterProvider(p, "K1")
    \/ \E p \in Kinds, cfg \in {"cfg1", NoConfig} : Idle /\ CreateProvider(p, cfg)
    \/ \E t \in 1..MaxTasks, how \in {"ok", "invalid", "fail"} : InitComplete(t, how)
    \/ \E p \in Kinds : Idle /\ InitializeProvider(p, "cfg1")
    \/ \E p \in Kinds : Idle /\ SetCurrentProvider(p)
    \/ Idle /\ ManagerDispose
    \/ Idle /\ Generate
    \/ \E t \in 1..MaxTasks, ok \in BOOLEAN : VendorComplete(t, ok)
    \/ \E t \in 1..MaxTasks : Settle(t)

SpecManager == Init /\ [][NextManager]_vars

\* initializeProvider calls from construction, several of them suspended at once
\* and completing in any order, for registered and unregistered ids.
NextInitialize ==
    \/ \E p \in Kinds : ~IsProviderRegistered(p) /\ RegisterProvider(p, "K1")
    \/ \E p \in ProviderIds : InitializeProvider(p, "cfg1")
    \/ \E t \in 1..MaxTasks, how \in {"ok", "invalid", "fail"} : InitComplete(t, how)

SpecInitialize == Init /\ [][NextInitialize]_vars

\* generate(params) from the call to its completion, no other call or event in
\* between: admission, provider.generate, the usage update and the finally block
GenerateCompleted(ok) ==
    LET p == currentProvider
        i == instances[p][activeProviders[p]]
        e == ValidateReadyState(i, p)
        res == IF e # NoError THEN e
               ELSE IF ok THEN NoError ELSE Err("PROVIDER_API_ERROR", p)
        events == IF e = NoError /\ ~ok THEN EmitError(i, p) ELSE <<>>
        d == Deliver(events, currentProvider, instances, activeProviders,
                     registryIsDisposed)
        u == UpdateUsageStats(p, res = NoError)
    IN  /\ Idle
        /\ GenerateThrows = NoError
        /\ admitted < MaxCalls
        /\ admitted' = admitted + 1
        /\ usageStats' = u.usageStats
        /\ activeRequests' = Release(Admit(activeRequests, p), p)
        /\ failures' = IF res = NoError THEN failures ELSE [failures EXCEPT ![p] = @ + 1]
        /\ currentProvider' = d.cur
        /\ emitted' = d.emitted \o u.emitted
        /\ outcome' = [Returned("generate", p, res) EXCEPT !.start = p]
        /\ UNCHANGED <<registeredProviders, activeProviders, providerConfigs,
                       registryIsDisposed, instances, config, isDisposed, tasks,
                       initialized>>

\* The deployed providers with auto-failover disabled, so that every call goes to "A".
InitUsage == InitDeployed /\ ~config.enableAutoFailover

\* generate calls against one provider, one after the other, succeeding or failing
NextUsage == \E ok \in BOOLEAN : GenerateCompleted(ok)

SpecUsage == InitUsage /\ [][NextUsage]_vars

\* Registrations of the two classes under every id, and the Registry's disposal.
NextRegistration ==
    \/ \E p \in ProviderIds, cls \in Classes : RegisterProvider(p, cls)
    \/ \E ok \in BOOLEAN : RegistryDispose(ok)

SpecRegistration == Init /\ [][NextRegistration]_vars

\* generate and generateStream calls on a deployed Manager, in any interleaving with
\* their completions.
NextStream ==
    \/ Generate
    \/ GenerateStream
    \/ \E t \in 1..MaxTasks, ok \in BOOLEAN : VendorComplete(t, ok)
    \/ \E t \in 1..MaxTasks, ok \in BOOLEAN : StreamComplete(t, ok)
    \/ \E t \in 1..MaxTasks : Settle(t)

SpecStream == InitDeployed /\ [][NextStream]_vars

\* Health sweeps on a deployed Manager, one at a time, while providers are disposed.
NextHealth ==
    \/ Idle /\ CheckProviderHealth
    \/ \E t \in 1..MaxTasks, p \in ProviderIds, g \in 1..MaxInstances, ok \in BOOLEAN :
          HealthCheckComplete(t, [id |-> p, gen |-> g], ok)
    \/ \E p \in ProviderIds, ok \in BOOLEAN : DisposeProvider(p, ok)

SpecHealth == InitDeployed /\ [][NextHealth]_vars

\* The three gated operations called on the current provider of a deployed Manager,
\* one request at a time, while health checks and disposals change its state.
NextGate ==
    \/ Idle /\ Generate
    \/ Idle /\ GenerateStream
    \/ Idle /\ GetAvailableModels
    \/ \E t \in 1..MaxTasks, ok \in BOOLEAN : VendorComplete(t, ok)
    \/ \E t \in 1..MaxTasks, ok \in BOOLEAN : StreamComplete(t, ok)
    \/ \E t \in 1..MaxTasks : Settle(t)
    \/ \E p \in ProviderIds, healthy \in BOOLEAN : Idle /\ CheckHealth(p, healthy)
    \/ \E p \in ProviderIds, ok \in BOOLEAN : Idle /\ DisposeProvider(p, ok)

SpecGate == InitDeployed /\ [][NextGate]_vars

\* generate calls on a deployed Manager whose vendor calls succeed, fail, or are
\* answered with HTTP 429.
NextVendor ==
    \/ Generate
    \/ \E t \in 1..MaxTasks, ok \in BOOLEAN : VendorComplete(t, ok)
    \/ \E t \in 1..MaxTasks : VendorRateLimited(t)
    \/ \E t \in 1..MaxTasks : Settle(t)

SpecVendor == InitDeployed /\ [][NextVendor]_vars

\* Providers initialized and reconfigured through the Manager and disposed through
\* the Registry, a disposal possibly falling between the start and the end of a
\* reconfiguration.
NextLifecycle ==
    \/ \E p \in Kinds : ~IsProviderRegistered(p) /\ RegisterProvider(p, "K1")
    \/ \E p \in Kinds : InitializeProvider(p, "cfg1")
    \/ \E t \in 1..MaxTasks, how \in {"ok", "invalid", "fail"} : InitComplete(t, how)
    \/ \E p \in Kinds, ok \in BOOLEAN : DisposeProvider(p, ok)

SpecLifecycle == Init /\ [][NextLifecycle]_vars

\* generate and generateStream calls on a deployed Manager, the streams consumed to
\* their end, failing, or given up by their consumer.
NextConsume ==
    \/ NextStream
    \/ \E t \in 1..MaxTasks : StreamAbandon(t)

SpecConsume == InitDeployed /\ [][NextConsume]_vars

\* Providers initialized and reconfigured through the Manager while their health is
\* checked, a check possibly falling inside a reconfiguration.
NextStatus ==
    \/ \E p \in Kinds : ~IsProviderRegistered(p) /\ RegisterProvider(p, "K1")
    \/ \E p \in Kinds : InitializeProvider(p, "cfg1")
    \/ \E t \in 1..MaxTasks, how \in {"ok", "invalid", "fail"} : InitComplete(t, how)
    \/ \E p \in Kinds, healthy \in BOOLEAN : CheckHealth(p, healthy)

SpecStatus == Init /\ [][NextStatus]_vars

\* generate calls on a deployed Manager that is disposed at any moment, requests
\* possibly being in flight.
NextDisposeInFlight ==
    \/ Generate
    \/ \E t \in 1..MaxTasks, ok \in BOOLEAN : VendorComplete(t, ok)
    \/ \E t \in 1..MaxTasks : Settle(t)
    \/ ManagerDispose

SpecDisposeInFlight == InitDeployed /\ [][NextDisposeInFlight]_vars

\* ---------------------------------------------------------------- properties
\* C1: under every interleaving of generate calls and completions no provider id has
\* more than maxConcurrentRequests requests in flight, and a generate call made while
\* the in-flight count of the current provider equals the cap throws
\* RATE_LIMIT_EXCEEDED without the provider being called.
C1_AdmissionCap ==
    /\ [](\A p \in ProviderIds : InFlight(p) <= config.maxConcurrentRequests)
    /\ [][Generate /\ GetCurrentProvider # 0
              /\ InFlight(currentProvider) = config.maxConcurrentRequests
           => /\ outcome'.phase = "returned"
              /\ outcome'.error = Err("RATE_LIMIT_EXCEEDED", currentProvider)
              /\ UNCHANGED tasks]_vars

\* with a cap of 1, a generate call has just been refused while another is in flight
C1_Witness ==
    /\ config.maxConcurrentRequests = 1
    /\ outcome.op = "generate" /\ outcome.phase = "returned"
    /\ outcome.error.code = "RATE_LIMIT_EXCEEDED"
    /\ InFlight(outcome.error.providerId) = 1

\* C2: the in-flight counter of every provider id equals the number of its admitted
\* requests that have not finished, whatever way they finish; so once all have
\* finished it is back to zero (the entry is gone) and the next request is admitted.
\* A generate call refused by the admission check leaves the counters unchanged.
C2_CounterReleased ==
    /\ [](\A p \in ProviderIds :
            /\ activeRequests[p] = IF InFlight(p) = 0 THEN Absent ELSE Num(InFlight(p))
            /\ InFlight(p) = 0 => Admission(activeRequests, p) = NoError)
    /\ [][outcome'.op = "generate" /\ outcome'.error.code = "RATE_LIMIT_EXCEEDED"
           => UNCHANGED activeRequests]_vars

\* every admitted request has finished, the last one by a failure of its provider
C2_Witness ==
    /\ admitted = MaxRequests
    /\ outcome.op = "generate" /\ outcome.phase = "returned" /\ outcome.id # "none"
    /\ outcome.error.code = "PROVIDER_API_ERROR"
    /\ \A p \in ProviderIds : InFlight(p) = 0

\* a generateWithFailover call that started with current provider "A" has returned
\* after attempting exactly the ids of `ids`, in that order
FailoverReturned(ids) ==
    /\ outcome.op = "generateWithFailover" /\ outcome.phase = "returned"
    /\ outcome.start = "A"
    /\ outcome.attempted = ids

IsFailoverNotice(e, to) ==
    e.kind = "provider-switched" /\ e.reason = "failover" /\ e.to = to

\* C3: when generateWithFailover, called with current provider A, had A fail and then
\* B succeed, B has become the current provider, a provider-switched notification
\* with reason 'failover' was emitted for the switch to B, and C was not attempted.
C3_FailoverOrdering ==
    FailoverReturned(<<"A", "B">>) /\ outcome.ok
    => /\ outcome.id = "B"
       /\ currentProvider = "B"
       /\ \E k \in 1..Len(emitted) : IsFailoverNotice(emitted[k], "B")

\* C4: when generateWithFailover, called with current provider A, had A, B and C
\* fail in turn, it throws the error of C, the last provider attempted, and the
\* current provider is A as before the call.
C4_FailoverExhaustion ==
    FailoverReturned(<<"A", "B", "C">>) /\ ~outcome.ok
    => /\ outcome.error = Err("PROVIDER_API_ERROR", "C")
       /\ currentProvider = "A"

\* the step reports a failure of p to the Registry: a health check moved its active
\* instance to status 'error', or its vendor call failed and the error was emitted
FailureReported(p) ==
    \/ /\ outcome'.op = "checkHealth" /\ outcome'.id = p
       /\ instances[p][activeProviders[p]].status # "error"
       /\ instances'[p][activeProviders[p]].status = "error"
    \/ /\ outcome'.op = "doGenerate" /\ outcome'.id = p /\ ~outcome'.ok

\* the priority list (current id, then the fallback ids) with the failed id left out
PriorityListWithout(failed) ==
    SelectSeq(GetFailoverProviders(currentProvider), LAMBDA id : id # failed)

\* C5: when a failure of the current provider is reported and auto-failover is
\* enabled, the current provider becomes the first id of the priority list, the
\* failed id left out, that is ready at that moment, and provider-switched is
\* emitted from the failed id to it with reason 'automatic-failover'; with no such
\* id, or when the failure is of a provider that is not current or auto-failover is
\* disabled, the current provider stays and nothing is emitted. The reporting
\* operation is not made to throw by it.
C5_AutomaticFailover ==
    [][\A p \in ProviderIds : FailureReported(p) =>
          LET list == PriorityListWithout(p)
              ready == {k \in 1..Len(list) :
                            IsProviderReady(instances', activeProviders', list[k])}
          IN  /\ IF p = currentProvider /\ config.enableAutoFailover /\ ready # {}
                 THEN /\ currentProvider' = list[Min(ready)]
                      /\ emitted' = <<Switched(p, list[Min(ready)], "automatic-failover")>>
                 ELSE /\ currentProvider' = currentProvider
                      /\ emitted' = <<>>
              /\ outcome'.op = "checkHealth" => outcome'.ok]_vars

\* a failed health check of the current provider A has just made B current
C5_Witness ==
    /\ outcome.op = "checkHealth" /\ outcome.id = "A"
    /\ currentProvider = "B"
    /\ emitted = <<Switched("A", "B", "automatic-failover")>>

\* the instances of p that createProvider initialized and that are still alive:
\* not disposed and with the Registry's listeners on them
LiveInstances(p) ==
    {g \in 1..Len(instances[p]) :
         /\ instances[p][g].isInitialized
         /\ ~instances[p][g].isDisposed
         /\ instances[p][g].listeners}

\* C6: however often createProvider(p, cfg) is called for a registered id, there is
\* at most one live instance of p: a second call reconfigures the existing instance
\* and leaves no earlier instance undisposed and forwarding its events.
C6_IdempotentCreation ==
    \A p \in ProviderIds : Cardinality(LiveInstances(p)) <= 1

\* C7: once ProviderManager.dispose() has run the current provider is null, and no
\* generate call made afterwards is admitted to a provider, whatever Manager
\* operations were called in between.
C7_Disposal ==
    isDisposed =>
        /\ currentProvider = NULL
        /\ ~(outcome.op = "generate" /\ outcome.phase = "suspended")

\* C8 as stated: a generate call made before any initializeProvider has succeeded
\* (the Manager is not disposed and holds no usage record, which a successful
\* initializeProvider creates) throws PROVIDER_NOT_CONFIGURED and no provider's
\* generate is invoked.
C8_BeforeInitializeProvider ==
    [][Generate /\ ~isDisposed /\ (\A p \in ProviderIds : ~usageStats[p].present)
       => /\ outcome'.phase = "returned"
          /\ outcome'.error.code = "PROVIDER_NOT_CONFIGURED"
          /\ UNCHANGED tasks]_vars

\* C8, amended: a generate call made before any provider instance has been
\* initialized successfully, by initializeProvider or by the Registry's
\* createProvider, throws PROVIDER_NOT_CONFIGURED and no provider's generate is
\* invoked.
C8_BeforeAnyInitialize ==
    [][Generate /\ initialized = {}
       => /\ outcome'.phase = "returned"
          /\ outcome'.error.code = "PROVIDER_NOT_CONFIGURED"
          /\ UNCHANGED tasks]_vars

\* generate has just been refused while an instance exists that was never initialized
C8_Witness ==
    /\ outcome.op = "generate" /\ outcome.phase = "returned"
    /\ outcome.error.code = "PROVIDER_NOT_CONFIGURED"
    /\ initialized = {}
    /\ \E p \in ProviderIds : activeProviders[p] # 0

\* the step is a createProvider or setCurrentProvider call for p that has returned
CalledFor(op, p) == outcome'.op = op /\ outcome'.phase = "returned" /\ outcome'.id = p

SetCurrentProviderGate ==
    LET p == outcome.id
        ready == /\ IsProviderRegistered(p)
                 /\ IsProviderReady(instances, activeProviders, p)
    IN  /\ outcome.ok <=> ready
        /\ ~outcome.ok => currentProvider = outcome.start /\ emitted = <<>>
        /\ outcome.ok => currentProvider = p

\* C10 as stated: the gate above, and every successful call emits provider-switched
\* with the previous current id, the new id and the reason 'manual'.
C10_SetCurrentProvider ==
    outcome.op = "setCurrentProvider" =>
        /\ SetCurrentProviderGate
        /\ outcome.ok => emitted = <<Switched(outcome.start, outcome.id, "manual")>>

\* C10, amended: the gate above, and a successful call emits provider-switched
\* (previous id, new id, 'manual') when there was a current provider other than id,
\* and nothing when there was none or id was current already.
C10_SetCurrentProviderChanged ==
    outcome.op = "setCurrentProvider" =>
        /\ SetCurrentProviderGate
        /\ outcome.ok =>
             emitted = IF outcome.start # NULL /\ outcome.start # outcome.id
                       THEN <<Switched(outcome.start, outcome.id, "manual")>>
                       ELSE <<>>

\* a manual switch from A to B has just been made and notified
C10_Witness ==
    /\ outcome.op = "setCurrentProvider" /\ outcome.ok
    /\ outcome.start = "A" /\ currentProvider = "B"
    /\ emitted = <<Switched("A", "B", "manual")>>

\* C11: an initializeProvider(id, config) call that succeeds makes id current exactly
\* when no provider is current at the moment it completes, and otherwise leaves the
\* current provider as it is; it leaves a usage record for id. A call that fails
\* does not make id current and leaves the usage records as they are.
C11_InitializeSetsCurrent ==
    [][\A p \in ProviderIds :
          outcome'.op = "initializeProvider" /\ outcome'.phase = "returned"
          /\ outcome'.id = p
          => IF outcome'.ok
             THEN /\ currentProvider' = IF currentProvider = NULL THEN p
                                        ELSE currentProvider
                  /\ usageStats'[p].present
             ELSE /\ currentProvider' = p => currentProvider = p
                  /\ usageStats' = usageStats]_vars

\* initializeProvider("B") has just succeeded while "A", initialized first, is current
C11_Witness ==
    /\ outcome.op = "initializeProvider" /\ outcome.phase = "returned"
    /\ outcome.id = "B" /\ outcome.ok
    /\ currentProvider = "A"
    /\ usageStats["B"].present

\* C12: after N generate calls against a provider of which E failed, its usage
\* record has requestCount = N and errorRate = E / N (the number the record stores
\* is errorCount / requestCount, so errorCount = E), whatever the order of the
\* successes and failures.
C12_UsageAccounting ==
    /\ usageStats["A"].requestCount = admitted
    /\ usageStats["A"].errorCount = failures["A"]

C14_DuplicateRegistration ==
    [][\A p \in ProviderIds :
          outcome'.op = "registerProvider" /\ outcome'.id = p /\ IsProviderRegistered(p)
          => /\ ~outcome'.ok
             /\ registeredProviders'[p] = registeredProviders[p]]_vars

\* a is l with some elements left out, the others in l's order
InOrderOf(a, l) ==
    \E f \in [1..Len(a) -> 1..Len(l)] :
        /\ \A i \in 1..Len(a) : l[f[i]] = a[i]
        /\ \A i, j \in 1..Len(a) : i < j => f[i] < f[j]

\* C15: the ids a generateWithFailover call invokes are taken in the order of
\* [current] ++ fallbacks without duplicates, each at most once; an id is invoked only
\* while it has a ready active instance; a further id is invoked only after the one
\* before it failed, and a successful call returns the result of the last id
\* invoked; a call that invoked no id throws the synthetic 'All providers failed'.
C15_FailoverIteration ==
    [][outcome'.op = "generateWithFailover" =>
          LET a == outcome'.attempted
          IN  /\ InOrderOf(a, Dedup((IF outcome'.start = NULL THEN <<>>
                                     ELSE <<outcome'.start>>) \o config.fallbackProviders))
              /\ \A i, j \in 1..Len(a) : i < j => a[i] # a[j]
              /\ outcome'.phase = "suspended" =>
                    /\ IsProviderReady(instances, activeProviders, outcome'.id)
                    /\ outcome'.id = a[Len(a)]
                    /\ Len(a) > 1 =>
                          \E t \in 1..MaxTasks :
                              /\ tasks[t].pc = "settle" /\ tasks[t].res # NoError
                              /\ tasks[t].id = a[Len(a) - 1]
              /\ outcome'.phase = "returned" /\ outcome'.ok => outcome'.id = a[Len(a)]
              /\ outcome'.phase = "returned" /\ a = <<>> =>
                    outcome'.error = Err("PROVIDER_API_ERROR", "unknown")]_vars

\* a call returned the second fallback's result after the current provider failed and
\* the first fallback, not ready, was passed over
C15_Witness ==
    /\ outcome.op = "generateWithFailover" /\ outcome.phase = "returned" /\ outcome.ok
    /\ outcome.start = "A" /\ outcome.attempted = <<"A", "C">>
    /\ ~IsProviderReady(instances, activeProviders, "B")

\* C16: streams count against the cap like generate calls: the counter of a provider
\* covers the streams being consumed from it, and a generateStream call made while
\* the requests in flight on the current provider have reached the cap throws
\* RATE_LIMIT_EXCEEDED.
C16_StreamAdmission ==
    /\ [](\A p \in ProviderIds :
            ActiveCount(activeRequests, p) = InFlight(p) + Streaming(p))
    /\ [][GenerateStream /\ GetCurrentProvider # 0
              /\ InFlight(currentProvider) + Streaming(currentProvider)
                    >= config.maxConcurrentRequests
           => /\ outcome'.phase = "returned"
              /\ outcome'.error = Err("RATE_LIMIT_EXCEEDED", currentProvider)]_vars

\* the 'health-check-completed' notifications among the events of a step
HealthNotices(events) == SelectSeq(events, LAMBDA e : e.kind = "health-check-completed")

\* the providers that were active when sweep t started
ActiveAtStart(t) == tasks[t].snapshot

\* C17: a failing health check of one provider never makes the sweep fail: its entry
\* carries status 'error'; the sweep returns normally once every check has answered,
\* with one entry for each provider that was active when it started, and emits
\* exactly one health-check-completed notification, carrying those entries; no
\* other step emits one.
C17_HealthSweep ==
    [][/\ \A t \in 1..MaxTasks : \A c \in tasks[t].pending :
             tasks[t].kind = "sweep" /\ tasks'[t] # tasks[t] =>
                 \/ /\ tasks'[t].kind = "sweep" /\ tasks'[t].pending # {}
                    /\ tasks'[t].snapshot = ActiveAtStart(t)
                    /\ HealthNotices(emitted') = <<>>
                    /\ outcome'.op = "doHealthCheck"
                 \/ /\ tasks'[t] = NoTask
                    /\ outcome'.op = "checkProviderHealth" /\ outcome'.ok
                    /\ Len(HealthNotices(emitted')) = 1
                    /\ LET r == HealthNotices(emitted')[1].results
                       IN  /\ {r[i].id : i \in 1..Len(r)} = ActiveAtStart(t)
                           /\ Len(r) = Cardinality(ActiveAtStart(t))
                           /\ \A i \in 1..Len(tasks[t].results) :
                                 r[i] = tasks[t].results[i]
       /\ \A t \in 1..MaxTasks, p \in ProviderIds, g \in 1..MaxInstances :
             HealthCheckComplete(t, [id |-> p, gen |-> g], FALSE) =>
                 LET r == IF tasks'[t] = NoTask THEN HealthNotices(emitted')[1].results
                          ELSE tasks'[t].results
                 IN  r[Len(r)] = [id |-> p, status |-> "error"]
       /\ HealthNotices(emitted') # <<>> => outcome'.op = "checkProviderHealth"]_vars

\* a sweep over three providers has just completed with the entry of a provider whose
\* check failed, and of one disposed during the sweep
C17_Witness ==
    /\ outcome.op = "checkProviderHealth" /\ outcome.phase = "returned" /\ outcome.ok
    /\ Len(HealthNotices(emitted)) = 1
    /\ LET r == HealthNotices(emitted)[1].results
       IN  /\ Len(r) = 3
           /\ \E i \in 1..3 : r[i].status = "error"
           /\ \E i \in 1..3 : activeProviders[r[i].id] = 0

Finishes(p) ==
    \E t \in 1..MaxTasks :
        /\ tasks[t].id = p
        /\ \/ tasks[t].pc = "settle" /\ Settle(t)
           \/ tasks[t].pc = "streaming" /\ \E ok \in BOOLEAN : StreamComplete(t, ok)

\* C19: while the Manager is not disposed, a step in which a request against p
\* completes or fails adds exactly one to the requestCount of p's usage record, and
\* no other step changes the requestCount or removes the record.
C19_UsageRecord ==
    [][~isDisposed /\ ~isDisposed' =>
          \A p \in ProviderIds :
              IF Finishes(p)
              THEN /\ usageStats'[p].present
                   /\ usageStats'[p].requestCount = usageStats[p].requestCount + 1
              ELSE /\ usageStats'[p].requestCount = usageStats[p].requestCount
                   /\ usageStats[p].present => usageStats'[p].present]_vars

\* C20: generate, generateStream and getAvailableModels called while the current
\* provider's instance is not 'ready' fail with PROVIDER_NOT_CONFIGURED or
\* PROVIDER_API_ERROR, and no vendor operation is started for them.
C20_StateGate ==
    [][(Generate \/ GenerateStream \/ GetAvailableModels)
          /\ GetCurrentProvider # 0
          /\ instances[currentProvider][GetCurrentProvider].status # "ready"
       => /\ ~outcome'.ok
          /\ \A t \in 1..MaxTasks :
                tasks'[t] # tasks[t] =>
                    /\ tasks'[t].pc = "settle"
                    /\ tasks'[t].res.code \in {"PROVIDER_NOT_CONFIGURED",
                                               "PROVIDER_API_ERROR"}
          /\ outcome'.phase = "returned" =>
                outcome'.error.code \in {"PROVIDER_NOT_CONFIGURED",
                                         "PROVIDER_API_ERROR"}]_vars

\* C21: a vendor call answered with HTTP 429 moves the ready provider that made it to
\* 'rate_limited', and a successful vendor call moves a 'rate_limited' provider back
\* to 'ready'.
C21_RateLimited ==
    [][\A t \in 1..MaxTasks :
          /\ VendorRateLimited(t)
                /\ instances[tasks[t].id][tasks[t].gen].status = "ready"
             => instances'[tasks[t].id][tasks[t].gen].status = "rate_limited"
          /\ VendorComplete(t, TRUE)
                /\ instances[tasks[t].id][tasks[t].gen].status = "rate_limited"
             => instances'[tasks[t].id][tasks[t].gen].status = "ready"]_vars

\* C22: dispose() is terminal: a provider instance that has been disposed is, and
\* stays, in status 'disconnected', uninitialized and without a configuration.
C22_DisposeTerminal ==
    \A p \in ProviderIds : \A g \in 1..Len(instances[p]) :
        instances[p][g].isDisposed =>
            /\ instances[p][g].status = "disconnected"
            /\ instances[p][g].config = NoConfig
            /\ ~instances[p][g].isInitialized

\* C23: every change of an instance's status is emitted as 'status-changed' to the
\* listener the Registry put on the instance, the change to 'disconnected' made by
\* dispose() included: the status the listener was last told is the instance's status.
C23_StatusNotified ==
    \A p \in ProviderIds : \A g \in 1..Len(instances[p]) :
        instances[p][g].notified = instances[p][g].status

\* C24: registering a class that lacks a non-empty id or name, a capability, or one of
\* the contract operations is rejected and leaves the registered classes unchanged.
C24_RegistrationValidation ==
    [][\A p \in ProviderIds, cls \in Classes :
          RegisterProvider(p, cls) /\ ClassLacks(cls) # {}
          => ~outcome'.ok /\ UNCHANGED registeredProviders]_vars

\* the 'provider-switched' notifications among the events of a step
SwitchNotices(events) == SelectSeq(events, LAMBDA e : e.kind = "provider-switched")

\* C25: the provider-switched notifications of a step describe the switches made in
\* it: the first one's 'from' is the current provider before the step, each 'to' is
\* the next one's 'from', the last 'to' is the current provider after the step, and
\* 'from' differs from 'to' in each.
C25_SwitchNotices ==
    [][LET sw == SwitchNotices(emitted')
       IN  sw # <<>> =>
             /\ sw[1].from = currentProvider
             /\ sw[Len(sw)].to = currentProvider'
             /\ \A i \in 1..Len(sw) : sw[i].from # sw[i].to
             /\ \A i \in 1..(Len(sw) - 1) : sw[i].to = sw[i + 1].from]_vars

\* C26: whenever the Manager's current provider id is not null, the Registry's
\* active map holds an instance for it.
C26_CurrentIsActive ==
    currentProvider # NULL => activeProviders[currentProvider] # 0

\* C27: no step of a generate call (its start, the answer of its vendor call, its
\* completion) changes the current provider.
C27_GenerateKeepsCurrent ==
    [][(\/ Generate
        \/ \E t \in 1..MaxTasks :
              /\ tasks[t].kind = "generate"
              /\ \/ \E ok \in BOOLEAN : VendorComplete(t, ok)
                 \/ VendorRateLimited(t)
                 \/ Settle(t))
       => currentProvider' = currentProvider]_vars

\* C28: the step that ends a stream, whichever way, adds one request to the usage
\* record of the stream's provider: without an error when the stream was consumed to
\* its end, with an error when it threw or was given up.
C28_StreamUsage ==
    [][\A t \in 1..MaxTasks :
          tasks[t].kind = "stream" /\ tasks'[t] = NoTask =>
              LET p == tasks[t].id
                  exhausted == outcome'.op = "generateStream" /\ outcome'.ok
              IN  /\ usageStats'[p].requestCount = usageStats[p].requestCount + 1
                  /\ usageStats'[p].errorCount =
                        usageStats[p].errorCount + IF exhausted THEN 0 ELSE 1]_vars

\* C29: a failing checkHealth sets the instance's status to 'error' whatever it was,
\* a passing one leaves it as it is, and neither touches another instance; an
\* instance in 'error' becomes 'ready' only in the step in which an initialize (of
\* createProvider or of a reconfiguration) succeeds.
C29_CheckHealthStatus ==
    [][/\ \A p \in ProviderIds, healthy \in BOOLEAN :
             CheckHealth(p, healthy) =>
                 \A q \in ProviderIds : \A g \in 1..Len(instances[q]) :
                     instances'[q][g].status =
                         IF q = p /\ g = activeProviders[p] /\ ~healthy THEN "error"
                         ELSE instances[q][g].status
       /\ \A q \in ProviderIds : \A g \in 1..Len(instances[q]) :
             instances[q][g].status = "error" /\ instances'[q][g].status = "ready"
             => /\ outcome'.op \in {"initializeProvider", "createProvider"}
                /\ outcome'.ok /\ outcome'.id = q]_vars

\* a health check has just been answered for a provider that was initialized and is
\* now in 'error'
C29_Witness ==
    /\ outcome.op = "checkHealth" /\ outcome.id \in initialized
    /\ activeProviders[outcome.id] # 0
    /\ instances[outcome.id][activeProviders[outcome.id]].status = "error"
    /\ instances[outcome.id][activeProviders[outcome.id]].isInitialized

\* C30: the completion of a generate request after the Manager was disposed hands the
\* provider's result or error to the caller, creates no usage record, and leaves the
\* provider's in-flight counter absent or zero.
C30_CompletionAfterDispose ==
    [][\A t \in 1..MaxTasks :
          isDisposed /\ tasks[t].kind = "generate" /\ Settle(t) =>
              LET p == tasks[t].id
              IN  /\ outcome'.error = tasks[t].res
                  /\ ~usageStats'[p].present
                  /\ activeRequests'[p] \in {Absent, Num(0)}]_vars

\* a call found no provider ready and threw the synthetic error
C15_NoneReady ==
    /\ outcome.op = "generateWithFailover" /\ outcome.phase = "returned"
    /\ outcome.attempted = <<>> /\ outcome.error = Err("PROVIDER_API_ERROR", "unknown")
====
